---------------------------- MODULE Spec2Model ----------------------------
(***************************************************************************)
(* Model of the Aquacomputer Octo hwmon driver (aquacomputer-octo.c).      *)
(*                                                                         *)
(* The driver keeps one struct octo_data per device.  The HID core calls   *)
(* octo_raw_event for every incoming report; the hwmon core calls          *)
(* octo_read / octo_read_string on behalf of user space.  The driver takes *)
(* no lock, so the stores of octo_raw_event interleave with the loads of   *)
(* octo_read.                                                              *)
(*                                                                         *)
(* Spec       : every handler runs as a whole, and time passes.            *)
(* SpecDecode : every handler runs as a whole, on every report and every   *)
(*              channel, at one instant.                                   *)
(* SpecConc   : octo_raw_event runs statement by statement, interleaved    *)
(*              with the two steps of octo_read.                           *)
(***************************************************************************)
EXTENDS Integers, Sequences, FiniteSets, TLC

(***************************************************************************)
(* Bounds of the model.                                                    *)
(***************************************************************************)
\* Ticks per second (the kernel's HZ), scaled down.
HZ == 1
\* Width in bits of unsigned long (the type of jiffies), scaled down.
BITS_PER_LONG == 3
\* Largest channel index a caller passes; every category has at most 9 channels.
MaxChannel == 9
\* Number of reports delivered in a run of SpecConc.
MaxCycle == 2
\* Number of concurrent callers of octo_read in SpecConc.
NumReaders == 1
\* Number of octo_read calls that make up one poll of a reader in SpecConc.
PollLen == 2

(***************************************************************************)
(* Constants of the driver.                                                *)
(***************************************************************************)
OCTO_STATUS_REPORT_ID == 1
OCTO_STATUS_UPDATE_INTERVAL == 2 * HZ
OCTO_SERIAL_FIRST_PART == 3
OCTO_SERIAL_SECOND_PART == 5
OCTO_FIRMWARE_VERSION == 13
OCTO_POWER_CYCLES == 24
OCTO_TEMP1 == 61
OCTO_TEMP2 == 63
OCTO_TEMP3 == 65
OCTO_TEMP4 == 67
OCTO_FLOW_SPEED == 123
OCTO_FAN1_SPEED == 133
OCTO_FAN2_SPEED == 146
OCTO_FAN3_SPEED == 159
OCTO_FAN4_SPEED == 172
OCTO_FAN5_SPEED == 185
OCTO_FAN6_SPEED == 198
OCTO_FAN7_SPEED == 211
OCTO_FAN8_SPEED == 224
OCTO_FAN1_POWER == 131
OCTO_FAN2_POWER == 144
OCTO_FAN3_POWER == 157
OCTO_FAN4_POWER == 170
OCTO_FAN5_POWER == 183
OCTO_FAN6_POWER == 196
OCTO_FAN7_POWER == 209
OCTO_FAN8_POWER == 222
OCTO_VOLTAGE == 117
OCTO_FAN1_VOLTAGE == 127
OCTO_FAN2_VOLTAGE == 140
OCTO_FAN3_VOLTAGE == 153
OCTO_FAN4_VOLTAGE == 166
OCTO_FAN5_VOLTAGE == 179
OCTO_FAN6_VOLTAGE == 192
OCTO_FAN7_VOLTAGE == 205
OCTO_FAN8_VOLTAGE == 218
OCTO_FAN1_CURRENT == 129
OCTO_FAN2_CURRENT == 142
OCTO_FAN3_CURRENT == 155
OCTO_FAN4_CURRENT == 168
OCTO_FAN5_CURRENT == 181
OCTO_FAN6_CURRENT == 194
OCTO_FAN7_CURRENT == 207
OCTO_FAN8_CURRENT == 220

\* errno values returned by the handlers (negated in the code).
ENODATA == 61
EOPNOTSUPP == 95

L_TEMP1 == "Temp1"
L_TEMP2 == "Temp2"
L_TEMP3 == "Temp3"
L_TEMP4 == "Temp4"
L_FLOW_SPEED == "Flow speed [l/h]"
L_FAN1_SPEED == "Fan1 speed"
L_FAN2_SPEED == "Fan2 speed"
L_FAN3_SPEED == "Fan3 speed"
L_FAN4_SPEED == "Fan4 speed"
L_FAN5_SPEED == "Fan5 speed"
L_FAN6_SPEED == "Fan6 speed"
L_FAN7_SPEED == "Fan7 speed"
L_FAN8_SPEED == "Fan8 speed"
L_FAN1_POWER == "Fan1 power"
L_FAN2_POWER == "Fan2 power"
L_FAN3_POWER == "Fan3 power"
L_FAN4_POWER == "Fan4 power"
L_FAN5_POWER == "Fan5 power"
L_FAN6_POWER == "Fan6 power"
L_FAN7_POWER == "Fan7 power"
L_FAN8_POWER == "Fan8 power"
L_OCTO_VOLTAGE == "VCC"
L_FAN1_VOLTAGE == "Fan1 voltage"
L_FAN2_VOLTAGE == "Fan2 voltage"
L_FAN3_VOLTAGE == "Fan3 voltage"
L_FAN4_VOLTAGE == "Fan4 voltage"
L_FAN5_VOLTAGE == "Fan5 voltage"
L_FAN6_VOLTAGE == "Fan6 voltage"
L_FAN7_VOLTAGE == "Fan7 voltage"
L_FAN8_VOLTAGE == "Fan8 voltage"
L_FAN1_CURRENT == "Fan1 current"
L_FAN2_CURRENT == "Fan2 current"
L_FAN3_CURRENT == "Fan3 current"
L_FAN4_CURRENT == "Fan4 current"
L_FAN5_CURRENT == "Fan1 current"
L_FAN6_CURRENT == "Fan2 current"
L_FAN7_CURRENT == "Fan3 current"
L_FAN8_CURRENT == "Fan4 current"

(***************************************************************************)
(* C integer types.                                                        *)
(***************************************************************************)
U8Mod == 2^8
U16Mod == 2^16

\* Conversion of the value of an int expression to the type of the struct
\* field it is stored in.  The model's integers are the C ints (32 bits,
\* signed), so an int that is not negative is stored in an s32 or a u32
\* unchanged; only the store to a u16 can drop bits.
Cast(type, x) ==
    CASE type = "u16" -> x % U16Mod
      [] type = "u32" -> x
      [] type = "s32" -> x

\* jiffies and priv->updated are unsigned long: arithmetic modulo 2^BITS_PER_LONG.
JiffiesMod == 2^BITS_PER_LONG
ULong(x) == x % JiffiesMod

\* time_after(a, b) is ((long)((b) - (a)) < 0).
time_after(a, b) == ULong(b - a + JiffiesMod) >= JiffiesMod \div 2

get_unaligned_be16(data, off) == data[off] * U8Mod + data[off + 1]
\* A u32 that is not the result of int arithmetic is kept as its two 16-bit
\* halves, high half first.
get_unaligned_be32(data, off) ==
    <<get_unaligned_be16(data, off), get_unaligned_be16(data, off + 2)>>

(***************************************************************************)
(* struct octo_data: the type of each field and its number of elements.    *)
(***************************************************************************)
FieldType ==
    [temp_input |-> "s32", speed_input |-> "u16", power_input |-> "u32",
     voltage_input |-> "u16", current_input |-> "u16", serial_number |-> "u32",
     firmware_version |-> "u16", power_cycles |-> "u32"]

ArrayLen ==
    [temp_input |-> 4, speed_input |-> 9, power_input |-> 8,
     voltage_input |-> 9, current_input |-> 8, serial_number |-> 2]

\* devm_kzalloc: every field is zero.
ZeroData ==
    [temp_input |-> [i \in 0..3 |-> 0], speed_input |-> [i \in 0..8 |-> 0],
     power_input |-> [i \in 0..7 |-> 0], voltage_input |-> [i \in 0..8 |-> 0],
     current_input |-> [i \in 0..7 |-> 0], serial_number |-> [i \in 0..1 |-> 0],
     firmware_version |-> 0, power_cycles |-> <<0, 0>>, updated |-> 0]

(***************************************************************************)
(* The stores of octo_raw_event, in program order.  Each entry names the   *)
(* field written, the report offset read, the width of the read and the    *)
(* arithmetic applied to the value read.                                   *)
(***************************************************************************)
St(f, i, o, w, c) == [field |-> f, index |-> i, off |-> o, width |-> w, conv |-> c]

Stores ==
    << St("serial_number", 0, OCTO_SERIAL_FIRST_PART, 2, "x1"),
       St("serial_number", 1, OCTO_SERIAL_SECOND_PART, 2, "x1"),
       St("firmware_version", 0, OCTO_FIRMWARE_VERSION, 2, "x1"),
       St("power_cycles", 0, OCTO_POWER_CYCLES, 4, "x1"),
       St("temp_input", 0, OCTO_TEMP1, 2, "x10"),
       St("temp_input", 1, OCTO_TEMP2, 2, "x10"),
       St("temp_input", 2, OCTO_TEMP3, 2, "x10"),
       St("temp_input", 3, OCTO_TEMP4, 2, "x10"),
       St("speed_input", 0, OCTO_FLOW_SPEED, 2, "div10"),
       St("speed_input", 1, OCTO_FAN1_SPEED, 2, "x1"),
       St("speed_input", 2, OCTO_FAN2_SPEED, 2, "x1"),
       St("speed_input", 3, OCTO_FAN3_SPEED, 2, "x1"),
       St("speed_input", 4, OCTO_FAN4_SPEED, 2, "x1"),
       St("speed_input", 5, OCTO_FAN5_SPEED, 2, "x1"),
       St("speed_input", 6, OCTO_FAN6_SPEED, 2, "x1"),
       St("speed_input", 7, OCTO_FAN7_SPEED, 2, "x1"),
       St("speed_input", 8, OCTO_FAN8_SPEED, 2, "x1"),
       St("power_input", 0, OCTO_FAN1_POWER, 2, "x10000"),
       St("power_input", 1, OCTO_FAN2_POWER, 2, "x10000"),
       St("power_input", 2, OCTO_FAN3_POWER, 2, "x10000"),
       St("power_input", 3, OCTO_FAN4_POWER, 2, "x10000"),
       St("power_input", 4, OCTO_FAN5_POWER, 2, "x10000"),
       St("power_input", 5, OCTO_FAN6_POWER, 2, "x10000"),
       St("power_input", 6, OCTO_FAN7_POWER, 2, "x10000"),
       St("power_input", 7, OCTO_FAN8_POWER, 2, "x10000"),
       St("voltage_input", 0, OCTO_VOLTAGE, 2, "x10"),
       St("voltage_input", 1, OCTO_FAN1_VOLTAGE, 2, "x10"),
       St("voltage_input", 2, OCTO_FAN2_VOLTAGE, 2, "x10"),
       St("voltage_input", 3, OCTO_FAN3_VOLTAGE, 2, "x10"),
       St("voltage_input", 4, OCTO_FAN4_VOLTAGE, 2, "x10"),
       St("voltage_input", 5, OCTO_FAN5_VOLTAGE, 2, "x10"),
       St("voltage_input", 6, OCTO_FAN6_VOLTAGE, 2, "x10"),
       St("voltage_input", 7, OCTO_FAN7_VOLTAGE, 2, "x10"),
       St("voltage_input", 8, OCTO_FAN8_VOLTAGE, 2, "x10"),
       St("current_input", 0, OCTO_FAN1_CURRENT, 2, "x1"),
       St("current_input", 1, OCTO_FAN2_CURRENT, 2, "x1"),
       St("current_input", 2, OCTO_FAN3_CURRENT, 2, "x1"),
       St("current_input", 3, OCTO_FAN4_CURRENT, 2, "x1"),
       St("current_input", 4, OCTO_FAN5_CURRENT, 2, "x1"),
       St("current_input", 5, OCTO_FAN6_CURRENT, 2, "x1"),
       St("current_input", 6, OCTO_FAN7_CURRENT, 2, "x1"),
       St("current_input", 7, OCTO_FAN8_CURRENT, 2, "x1") >>

NStores == Len(Stores)
\* The store after the last field is priv->updated = jiffies.
StampStep == NStores + 1

\* One byte past the last byte octo_raw_event reads: its reads end with the
\* two bytes at OCTO_FAN8_SPEED, the largest offset.
ReportReach == OCTO_FAN8_SPEED + 2

\* The value read from the report for a store.
Load(data, st) ==
    IF st.width = 4 THEN get_unaligned_be32(data, st.off)
                    ELSE get_unaligned_be16(data, st.off)

\* The arithmetic with a power factor of 1000 and the flow speed undivided.
Conv_WrongScale(c, raw) ==
    CASE c = "x1" -> raw
      [] c = "x10" -> raw * 10
      [] c = "x10000" -> raw * 1000
      [] c = "div10" -> raw

\* The arithmetic of the right-hand side, done in int after promotion.
Conv(c, raw) ==
    CASE c = "x1" -> raw
      [] c = "x10" -> raw * 10
      [] c = "x10000" -> raw * 10000
      [] c = "div10" -> raw \div 10

\* The statements are grouped by field, in index order: FirstStore is the
\* position of the statement that writes element 0 of the field.
FirstStore ==
    [serial_number |-> 1, firmware_version |-> 3, power_cycles |-> 4,
     temp_input |-> 5, speed_input |-> 9, power_input |-> 18,
     voltage_input |-> 26, current_input |-> 35]

\* The statement that writes element i of field f (i is 0 for a scalar).
StoreIndex(f, i) == FirstStore[f] + i

\* The value statement k assigns: the right-hand side converted to the type
\* of the field.
StoredValue(data, k) ==
    Cast(FieldType[Stores[k].field], Conv(Stores[k].conv, Load(data, Stores[k])))

\* The struct after the statements in the set done have run on p.  The
\* statements write pairwise different locations and read none of them, so
\* the result is the same in every order.
AfterStores(p, done, data, jif) ==
    LET El(f, i, old) ==
            IF StoreIndex(f, i) \in done THEN StoredValue(data, StoreIndex(f, i)) ELSE old
    IN  [serial_number |-> [i \in 0..1 |-> El("serial_number", i, p.serial_number[i])],
         firmware_version |-> El("firmware_version", 0, p.firmware_version),
         power_cycles |-> El("power_cycles", 0, p.power_cycles),
         temp_input |-> [i \in 0..3 |-> El("temp_input", i, p.temp_input[i])],
         speed_input |-> [i \in 0..8 |-> El("speed_input", i, p.speed_input[i])],
         power_input |-> [i \in 0..7 |-> El("power_input", i, p.power_input[i])],
         voltage_input |-> [i \in 0..8 |-> El("voltage_input", i, p.voltage_input[i])],
         current_input |-> [i \in 0..7 |-> El("current_input", i, p.current_input[i])],
         updated |-> IF StampStep \in done THEN jif ELSE p.updated]

\* Statement k of octo_raw_event's body (lines 297..349).
DoStore(p, k, data, jif) == AfterStores(p, {k}, data, jif)

\* The whole body: statements 1..StampStep.
RunStores(p, data, jif) == AfterStores(p, 1..StampStep, data, jif)

(***************************************************************************)
(* Reports delivered by the HID core.  A report is its identifier, its     *)
(* length and its bytes; the bytes are built by writing one raw value per  *)
(* field, big-endian, at the field's offset (all other bytes are 0).       *)
(***************************************************************************)
\* Seeds of the raw values: the k-th field of a report of seed s carries
\* s + k (mod 2^16), so the fields of one report differ from each other.
Seeds == {200, 6549, 65517}

FieldRaw(seed, k) ==
    IF Stores[k].width = 4
    THEN <<seed, (seed + k) % U16Mod>>
    ELSE (seed + k) % U16Mod

\* Byte i of the big-endian encoding of v in w bytes.
BEByte(v, w, i) ==
    IF w = 4 THEN (v[1 + (i \div 2)] \div (U8Mod ^ (1 - (i % 2)))) % U8Mod
             ELSE (v \div (U8Mod ^ (1 - i))) % U8Mod

ReportBytes ==
    [s \in Seeds |->
        [i \in 0..(ReportReach - 1) |->
            LET ks == {k \in 1..NStores :
                          Stores[k].off <= i /\ i < Stores[k].off + Stores[k].width}
            IN  IF ks = {} THEN 0
                ELSE LET k == CHOOSE k \in ks : TRUE
                     IN  BEByte(FieldRaw(s, k), Stores[k].width, i - Stores[k].off)]]

ReportIds == {OCTO_STATUS_REPORT_ID, OCTO_STATUS_REPORT_ID + 1}
ReportSizes == {ReportReach, ReportReach - 1}
Reports == [id : ReportIds, size : ReportSizes, seed : Seeds]
NoReport == [id |-> -1, size |-> 0, seed |-> 0]

\* octo_raw_event never looks at size.  A read at or past the end of the
\* buffer is out of bounds and yields whatever byte lies there; g is that byte.
Garbage == {0, U8Mod - 1}
GarbageFor(rep) == IF rep.size >= ReportReach THEN {0} ELSE Garbage
VisibleBytes ==
    [rep \in Reports |-> [g \in Garbage |->
        [i \in 0..(ReportReach - 1) |->
            IF i < rep.size THEN ReportBytes[rep.seed][i] ELSE g]]]
Visible(rep, g) == VisibleBytes[rep][g]

\* The test of line 290.
IsStatusReport(rep) == rep.id = OCTO_STATUS_REPORT_ID

\* octo_raw_event without the test of line 290: every report is decoded.
octo_raw_event_NoIdTest(p, rep, g, jif) ==
    [priv |-> RunStores(p, Visible(rep, g), jif), ret |-> 0]

\* octo_raw_event as a whole: the new struct and the return value.
octo_raw_event(p, rep, g, jif) ==
    IF ~IsStatusReport(rep)
    THEN [priv |-> p, ret |-> 0]
    ELSE [priv |-> RunStores(p, Visible(rep, g), jif), ret |-> 0]

\* octo_probe: the zeroed struct with updated set one interval back.
octo_probe(jif) ==
    [ZeroData EXCEPT !.updated = ULong(jif + JiffiesMod - OCTO_STATUS_UPDATE_INTERVAL)]

(***************************************************************************)
(* The hwmon callbacks.                                                    *)
(***************************************************************************)
label_temps == <<L_TEMP1, L_TEMP2, L_TEMP3, L_TEMP4>>
label_speeds ==
    <<L_FLOW_SPEED, L_FAN1_SPEED, L_FAN2_SPEED, L_FAN3_SPEED, L_FAN4_SPEED,
      L_FAN5_SPEED, L_FAN6_SPEED, L_FAN7_SPEED, L_FAN8_SPEED>>
label_power ==
    <<L_FAN1_POWER, L_FAN2_POWER, L_FAN3_POWER, L_FAN4_POWER,
      L_FAN5_POWER, L_FAN6_POWER, L_FAN7_POWER, L_FAN8_POWER>>
label_voltages ==
    <<L_OCTO_VOLTAGE, L_FAN1_VOLTAGE, L_FAN2_VOLTAGE, L_FAN3_VOLTAGE, L_FAN4_VOLTAGE,
      L_FAN5_VOLTAGE, L_FAN6_VOLTAGE, L_FAN7_VOLTAGE, L_FAN8_VOLTAGE>>
label_current ==
    <<L_FAN1_CURRENT, L_FAN2_CURRENT, L_FAN3_CURRENT, L_FAN4_CURRENT,
      L_FAN5_CURRENT, L_FAN6_CURRENT, L_FAN7_CURRENT, L_FAN8_CURRENT>>

\* The cases of the two switch statements: the array and the label table
\* each sensor type selects.
TypeField ==
    [hwmon_temp |-> "temp_input", hwmon_fan |-> "speed_input",
     hwmon_power |-> "power_input", hwmon_in |-> "voltage_input",
     hwmon_curr |-> "current_input"]
TypeLabels ==
    [hwmon_temp |-> label_temps, hwmon_fan |-> label_speeds,
     hwmon_power |-> label_power, hwmon_in |-> label_voltages,
     hwmon_curr |-> label_current]
HwmonTypes == DOMAIN TypeField
\* hwmon_humidity stands for every type the switches do not list.
SensorTypes == HwmonTypes \cup {"hwmon_humidity"}
Channels == 0..MaxChannel

\* octo_info registers this many channels per type.
NumChannels(type) == ArrayLen[TypeField[type]]
InRange(type, channel) == channel >= 0 /\ channel < NumChannels(type)

\* An index past the end of an array is read without a check: the load is
\* out of bounds and yields whatever lies there.
OobValues == {0, U16Mod - 1}
OobLabel == "<out of bounds>"

Result(r, s, v, l) == [ret |-> r, set |-> s, val |-> v, str |-> l]

\* The staleness test of line 199.
IsStale(p, jif) == time_after(jif, ULong(p.updated + OCTO_STATUS_UPDATE_INTERVAL))

\* The load of lines 204..216 for a listed type.
LoadChannel(p, type, channel) ==
    IF InRange(type, channel) THEN {p[TypeField[type]][channel]} ELSE OobValues

\* octo_read: the set of outcomes (ret, whether *val was written, *val).
octo_read(p, jif, type, channel) ==
    IF IsStale(p, jif) THEN {Result(-ENODATA, FALSE, 0, "")}
    ELSE IF type \notin HwmonTypes THEN {Result(-EOPNOTSUPP, FALSE, 0, "")}
    ELSE {Result(0, TRUE, v, "") : v \in LoadChannel(p, type, channel)}

\* octo_read_string: the set of outcomes (ret, whether *str was written, *str).
octo_read_string(type, channel) ==
    IF type \notin HwmonTypes THEN {Result(-EOPNOTSUPP, FALSE, 0, "")}
    ELSE IF InRange(type, channel)
         THEN {Result(0, TRUE, 0, TypeLabels[type][channel + 1])}
         ELSE {Result(0, TRUE, 0, OobLabel)}

\* The debugfs files: each prints fields of the struct and returns 0.
\* "%05u" prints at least five decimal digits, zero-padded.
RECURSIVE DecDigits(_, _)
DecDigits(n, min) ==
    IF n < 10 /\ min <= 1 THEN <<n>>
    ELSE Append(DecDigits(n \div 10, min - 1), n % 10)

serial_number_show(p) ==
    [ret |-> 0, out |-> <<DecDigits(p.serial_number[0], 5), DecDigits(p.serial_number[1], 5)>>]
firmware_version_show(p) == [ret |-> 0, out |-> <<DecDigits(p.firmware_version, 1)>>]
power_cycles_show(p) == [ret |-> 0, out |-> <<p.power_cycles>>]

(***************************************************************************)
(* State.                                                                  *)
(***************************************************************************)
VARIABLES
    priv,     \* struct octo_data of the device
    jiffies,  \* the kernel's tick counter
    last,     \* the most recent call: its arguments and what it returned
    pub,      \* history: the last report octo_raw_event stored, with its
              \* out-of-bounds byte
    elapsed,  \* history: ticks since that report (since probe before the
              \* first one), saturating at ElapsedCap
    wpc,      \* SpecConc: the next statement of the running octo_raw_event,
              \* 0 when none runs
    wrep,     \* SpecConc: the report that octo_raw_event is storing
    cycle,    \* SpecConc history: number of reports stored completely
    rd        \* SpecConc: per reader, the position in octo_read and the
              \* values its current poll has obtained

vars == <<priv, jiffies, last, pub, elapsed, wpc, wrep, cycle, rd>>
concVars == <<wpc, wrep, cycle, rd>>

ElapsedCap == JiffiesMod
Readers == 1..NumReaders

Call(op, rep, g, type, channel, res) ==
    [op |-> op, rep |-> rep, g |-> g, type |-> type, channel |-> channel,
     ret |-> res.ret, set |-> res.set, val |-> res.val, str |-> res.str]
NoResult == Result(0, FALSE, 0, "")
IdleReader == [pc |-> "idle", type |-> "", channel |-> 0, stamp |-> 0, obs |-> <<>>]

\* The device is probed at some value of jiffies.
InitialJiffies == {0, JiffiesMod - 1}

Init ==
    /\ jiffies \in InitialJiffies
    /\ priv = octo_probe(jiffies)
    /\ last = Call("probe", NoReport, 0, "", 0, NoResult)
    /\ pub = [rep |-> NoReport, g |-> 0]
    /\ elapsed = 0
    /\ wpc = 0
    /\ wrep = NoReport
    /\ cycle = 0
    /\ rd = [r \in Readers |-> IdleReader]

(***************************************************************************)
(* Actions of Spec and SpecDecode: each handler runs as a whole.           *)
(***************************************************************************)
\* The HID core delivers a report of the set reps.
RawEvent(reps) ==
    \E rep \in reps :
      \E g \in (IF IsStatusReport(rep) THEN GarbageFor(rep) ELSE {0}) :
        LET r == octo_raw_event(priv, rep, g, jiffies) IN
        /\ priv' = r.priv
        /\ last' = Call("raw_event", rep, g, "", 0, Result(r.ret, FALSE, 0, ""))
        /\ pub' = IF IsStatusReport(rep) THEN [rep |-> rep, g |-> g] ELSE pub
        /\ elapsed' = IF IsStatusReport(rep) THEN 0 ELSE elapsed
        /\ UNCHANGED <<jiffies, concVars>>

\* One timer tick.
Tick ==
    /\ jiffies' = ULong(jiffies + 1)
    /\ elapsed' = IF elapsed < ElapsedCap THEN elapsed + 1 ELSE elapsed
    /\ last' = Call("tick", NoReport, 0, "", 0, NoResult)
    /\ UNCHANGED <<priv, pub, concVars>>

\* The hwmon core asks for the value of a channel.
Read(types, channels) ==
    \E type \in types, channel \in channels :
      \E res \in octo_read(priv, jiffies, type, channel) :
        /\ last' = Call("read", NoReport, 0, type, channel, res)
        /\ UNCHANGED <<priv, jiffies, pub, elapsed, concVars>>

\* The hwmon core asks for the label of a channel.
ReadString(types, channels) ==
    \E type \in types, channel \in channels :
      \E res \in octo_read_string(type, channel) :
        /\ last' = Call("read_string", NoReport, 0, type, channel, res)
        /\ UNCHANGED <<priv, jiffies, pub, elapsed, concVars>>

\* User space reads the three debugfs files.
ShowIdentity ==
    \E r \in {serial_number_show(priv), firmware_version_show(priv), power_cycles_show(priv)} :
        /\ last' = Call("show", NoReport, 0, "", 0, Result(r.ret, TRUE, 0, ""))
        /\ UNCHANGED <<priv, jiffies, pub, elapsed, concVars>>

\* Spec: time passes; reports of one seed; three of the types, the first and
\* the last channel index.
SpecReports == {rep \in Reports : rep.seed = 200}
SpecChannels == {0, MaxChannel}
SpecTypes == {"hwmon_temp", "hwmon_curr", "hwmon_humidity"}

Next ==
    \/ RawEvent(SpecReports)
    \/ Tick
    \/ Read(SpecTypes, SpecChannels)
    \/ ReadString(SpecTypes, SpecChannels)
    \/ ShowIdentity

Spec == Init /\ [][Next]_vars

\* SpecDecode: every report, every type and channel index, at one instant.
NextDecode ==
    \/ RawEvent(Reports)
    \/ Read(SensorTypes, Channels)
    \/ ReadString(SensorTypes, Channels)
    \/ ShowIdentity

SpecDecode == Init /\ [][NextDecode]_vars

(***************************************************************************)
(* Actions of SpecConc: octo_raw_event and octo_read run on different      *)
(* CPUs, one statement at a time.  Every report is complete and carries    *)
(* the seed of its cycle.                                                  *)
(***************************************************************************)
ConcSeed(c) == IF c % 2 = 0 THEN 200 ELSE 6549
ConcReports(c) == {rep \in Reports : rep.size = ReportReach /\ rep.seed = ConcSeed(c)}
\* A poll reads the channel stored first and the channel stored last.
ConcQueries ==
    {[type |-> "hwmon_temp", channel |-> 0], [type |-> "hwmon_curr", channel |-> 7]}

\* octo_raw_event is entered: the test of line 290.
ConcRawEventEnter ==
    /\ wpc = 0
    /\ cycle < MaxCycle
    /\ \E rep \in ConcReports(cycle) :
         /\ IF IsStatusReport(rep)
            THEN wpc' = 1 /\ wrep' = rep /\ UNCHANGED last
            ELSE /\ last' = Call("raw_event", rep, 0, "", 0, NoResult)
                 /\ UNCHANGED <<wpc, wrep>>
         /\ UNCHANGED <<priv, jiffies, pub, elapsed, cycle, rd>>

\* octo_raw_event runs its next statement; after the last one it returns 0.
ConcRawEventStore ==
    /\ wpc >= 1
    /\ priv' = DoStore(priv, wpc, Visible(wrep, 0), jiffies)
    /\ IF wpc = StampStep
       THEN /\ wpc' = 0
            /\ wrep' = NoReport
            /\ cycle' = cycle + 1
            /\ pub' = [rep |-> wrep, g |-> 0]
            /\ elapsed' = 0
            /\ last' = Call("raw_event", wrep, 0, "", 0, NoResult)
       ELSE /\ wpc' = wpc + 1
            /\ UNCHANGED <<wrep, cycle, pub, elapsed, last>>
    /\ UNCHANGED <<jiffies, rd>>

\* The report that wrote the current value of a channel: the one being
\* stored if its statement has run, the last complete one otherwise.
ValueCycle(type, channel) ==
    IF wpc > StoreIndex(TypeField[type], channel) THEN cycle + 1 ELSE cycle

Obs(q, res, stamp, src) ==
    [type |-> q.type, channel |-> q.channel, ret |-> res.ret, val |-> res.val,
     stamp |-> stamp, src |-> src]

\* octo_read is entered by reader r: the test of line 199.  The poll
\* remembers which report the timestamp it tested belongs to.
ConcReadCheck(r) ==
    /\ rd[r].pc = "idle"
    /\ Len(rd[r].obs) < PollLen
    /\ \E q \in ConcQueries :
         IF IsStale(priv, jiffies)
         THEN rd' = [rd EXCEPT ![r].obs =
                        Append(@, Obs(q, Result(-ENODATA, FALSE, 0, ""), cycle, cycle))]
         ELSE rd' = [rd EXCEPT ![r].pc = "load", ![r].type = q.type,
                                ![r].channel = q.channel, ![r].stamp = cycle]
    /\ UNCHANGED <<priv, jiffies, last, pub, elapsed, wpc, wrep, cycle>>

\* octo_read loads the channel and returns 0.
ConcReadLoad(r) ==
    /\ rd[r].pc = "load"
    /\ \E v \in LoadChannel(priv, rd[r].type, rd[r].channel) :
         rd' = [rd EXCEPT ![r].pc = "idle",
                          ![r].obs = Append(@, Obs(rd[r], Result(0, TRUE, v, ""), rd[r].stamp,
                                                   ValueCycle(rd[r].type, rd[r].channel)))]
    /\ UNCHANGED <<priv, jiffies, last, pub, elapsed, wpc, wrep, cycle>>

\* The poll of reader r is complete; the next one starts.
ConcPollEnd(r) ==
    /\ rd[r].pc = "idle"
    /\ Len(rd[r].obs) = PollLen
    /\ rd' = [rd EXCEPT ![r] = IdleReader]
    /\ UNCHANGED <<priv, jiffies, last, pub, elapsed, wpc, wrep, cycle>>

NextConc ==
    \/ ConcRawEventEnter
    \/ ConcRawEventStore
    \/ \E r \in Readers : ConcReadCheck(r)
    \/ \E r \in Readers : ConcReadLoad(r)
    \/ \E r \in Readers : ConcPollEnd(r)

SpecConc == Init /\ [][NextConc]_vars

(***************************************************************************)
(* Vocabulary of the properties.                                           *)
(***************************************************************************)
\* A report with the expected identifier has been stored.
Published == pub.rep # NoReport

\* The channels octo_info registers.
ValidQueries ==
    {q \in [type : HwmonTypes, channel : Channels] : InRange(q.type, q.channel)}

\* The raw value the last stored report carries for a channel, and whether
\* the report is long enough to hold it.
RawOf(q) == FieldRaw(pub.rep.seed, StoreIndex(TypeField[q.type], q.channel))
Carried(q) ==
    Stores[StoreIndex(TypeField[q.type], q.channel)].off + 2 <= pub.rep.size

\* Every octo_read of a registered channel fails with -ENODATA.
AllStale ==
    \A q \in ValidQueries :
        octo_read(priv, jiffies, q.type, q.channel) = {Result(-ENODATA, FALSE, 0, "")}

\* Every octo_read of a registered channel succeeds.
AllFresh ==
    \A q \in ValidQueries :
        \A res \in octo_read(priv, jiffies, q.type, q.channel) : res.ret = 0 /\ res.set

\* Every octo_read_string of a registered channel and every debugfs file succeeds.
LabelsAndIdentityReadable ==
    /\ \A q \in ValidQueries :
          \A res \in octo_read_string(q.type, q.channel) : res.ret = 0 /\ res.set
    /\ serial_number_show(priv).ret = 0
    /\ firmware_version_show(priv).ret = 0
    /\ power_cycles_show(priv).ret = 0

\* A report with the expected identifier that ends before the last byte
\* octo_raw_event reads.
ShortStatusReport(rep) == IsStatusReport(rep) /\ rep.size < ReportReach

(***************************************************************************)
(* C1.  With octo_raw_event and octo_read interleaved statement by         *)
(* statement, the values one poll obtains against the timestamp of one     *)
(* stored report all come from one report.                                 *)
(***************************************************************************)
C1_NoMixedSnapshot ==
    \A r \in Readers :
        \A i, j \in 1..Len(rd[r].obs) :
            LET a == rd[r].obs[i]
                b == rd[r].obs[j]
            IN  (a.ret = 0 /\ b.ret = 0 /\ a.stamp >= 1 /\ a.stamp = b.stamp)
                    => a.src = b.src

(***************************************************************************)
(* C2.  Right after a report is stored every octo_read succeeds; once more *)
(* than OCTO_STATUS_UPDATE_INTERVAL ticks have passed without a report,    *)
(* every octo_read fails with -ENODATA while the labels and the identity   *)
(* files stay readable.                                                    *)
(***************************************************************************)
C2_Freshness ==
    /\ (Published /\ elapsed = 0) => AllFresh
    /\ (Published /\ elapsed > OCTO_STATUS_UPDATE_INTERVAL)
          => (AllStale /\ LabelsAndIdentityReadable)

(***************************************************************************)
(* C3.  Before the first report with the expected identifier, every        *)
(* octo_read fails with -ENODATA, at every time from the probe onwards.    *)
(***************************************************************************)
C3_InitiallyStale == ~Published => AllStale

(***************************************************************************)
(* C4.  A report whose identifier is not OCTO_STATUS_REPORT_ID leaves the  *)
(* struct (channels, identity fields, timestamp) unchanged and             *)
(* octo_raw_event returns 0.                                               *)
(***************************************************************************)
C4_IgnoredReportLeavesState ==
    [][(last'.op = "raw_event" /\ last'.rep.id # OCTO_STATUS_REPORT_ID)
          => (priv' = priv /\ last'.ret = 0)]_vars

\* An ignored report arrived after a stored one, at a later tick.
C4_Witness ==
    /\ last.op = "raw_event"
    /\ last.rep.id # OCTO_STATUS_REPORT_ID
    /\ Published
    /\ priv.updated # jiffies
    /\ priv.temp_input[0] # 0

(***************************************************************************)
(* C5.  A report with the expected identifier that is shorter than         *)
(* ReportReach bytes makes octo_raw_event fail and leaves the struct       *)
(* unchanged.                                                              *)
(***************************************************************************)
C5_ShortReportRejected ==
    [][(last'.op = "raw_event" /\ ShortStatusReport(last'.rep))
          => (priv' = priv /\ pub' = pub /\ last'.ret < 0)]_vars

(***************************************************************************)
(* C6.  A value or label query with a channel index outside the range of   *)
(* its type fails and writes no value or label.                            *)
(***************************************************************************)
C6_InvalidChannelRejected ==
    (/\ Published
     /\ last.op \in {"read", "read_string"}
     /\ last.type \in HwmonTypes
     /\ ~InRange(last.type, last.channel))
        => (last.ret < 0 /\ ~last.set)

(***************************************************************************)
(* C7.  After a report is stored, octo_read of a voltage channel returns   *)
(* the channel's 16-bit raw value times 10.                                *)
(***************************************************************************)
C7_VoltageTimesTen ==
    Published =>
        \A q \in ValidQueries :
            (q.type = "hwmon_in" /\ Carried(q)) =>
                octo_read(priv, jiffies, q.type, q.channel)
                    = {Result(0, TRUE, RawOf(q) * 10, "")}

\* The value of a channel that is not a voltage, from its raw value.
Scaled(q, raw) ==
    CASE q.type = "hwmon_temp" -> raw * 10
      [] q.type = "hwmon_power" -> raw * 10000
      [] q.type = "hwmon_fan" /\ q.channel = 0 -> raw \div 10
      [] OTHER -> raw

(***************************************************************************)
(* C8.  After a report is stored, octo_read returns the raw value times 10 *)
(* for a temperature, times 10000 for a power, divided by 10 (truncating)  *)
(* for the flow speed, and unchanged for a fan speed and a current.        *)
(***************************************************************************)
C8_ScalingExact ==
    Published =>
        \A q \in ValidQueries :
            (q.type # "hwmon_in" /\ Carried(q)) =>
                octo_read(priv, jiffies, q.type, q.channel)
                    = {Result(0, TRUE, Scaled(q, RawOf(q)), "")}

\* A power channel whose raw value is the largest 16-bit value has been read.
C8_Witness ==
    /\ Published
    /\ last.op = "read"
    /\ last.type = "hwmon_power"
    /\ InRange(last.type, last.channel)
    /\ RawOf([type |-> last.type, channel |-> last.channel]) = U16Mod - 1
    /\ last.ret = 0
    /\ last.val = (U16Mod - 1) * 10000

(***************************************************************************)
(* C9.  Once octo_read fails with -ENODATA it keeps failing until the next *)
(* report is stored, however far jiffies advances.                         *)
(***************************************************************************)
C9_StaleUntilNextReport ==
    [][(Published /\ AllStale /\ pub' = pub /\ elapsed' >= elapsed)
          => AllStale']_vars

\* The label octo_read_string gives for a registered channel, and the fan
\* whose block of the report the channel is decoded from (0 if none).
LabelOf(q) == (CHOOSE res \in octo_read_string(q.type, q.channel) : TRUE).str
Digit == <<"1", "2", "3", "4", "5", "6", "7", "8">>
\* The report holds one block per fan, OCTO_FAN2_VOLTAGE - OCTO_FAN1_VOLTAGE
\* bytes each, the first starting at OCTO_FAN1_VOLTAGE.
FanOfOffset(off) ==
    IF off < OCTO_FAN1_VOLTAGE THEN 0
    ELSE (off - OCTO_FAN1_VOLTAGE) \div (OCTO_FAN2_VOLTAGE - OCTO_FAN1_VOLTAGE) + 1
FanOf(q) == FanOfOffset(Stores[StoreIndex(TypeField[q.type], q.channel)].off)

(***************************************************************************)
(* C10.  Within a type, octo_read_string gives different channels          *)
(* different labels, and the label of a channel decoded from the block of  *)
(* fan n starts with "Fan<n>".                                             *)
(***************************************************************************)
C10_LabelsNameTheirChannel ==
    (last.op = "read_string" /\ last.type \in HwmonTypes /\ InRange(last.type, last.channel))
        => LET q == [type |-> last.type, channel |-> last.channel] IN
           /\ last.ret = 0
           /\ \A q2 \in ValidQueries :
                 (q2.type = q.type /\ q2.channel # q.channel) => LabelOf(q2) # last.str
           /\ FanOf(q) >= 1 => SubSeq(last.str, 1, 4) = "Fan" \o Digit[FanOf(q)]

=============================================================================
